---- MODULE Spec2Model ----
(***************************************************************************)
(* Model of the Notion-driven download synchronizer:                       *)
(*   - notion_downloader_main.py : NotionManager, download_and_update,     *)
(*     the download pass of main()                                         *)
(*   - src/notion_downloader.py  : NotionDownloader.update_page_status,    *)
(*     update_page_properties, simple_download_video,                      *)
(*     process_notion_database                                             *)
(*   - tiktok_downloader_api.py  : _download_video                         *)
(* The remote store (Notion) and the video downloader are the environment: *)
(* their answers are chosen nondeterministically from small sets.          *)
(***************************************************************************)
EXTENDS Integers, Sequences, FiniteSets

VARIABLES
    prog,       \* which entry point runs: "main", "pnd" (process_notion_database), "ups"
    pc,         \* position of the running program
    pass,       \* number of the current synchronization pass
    store,      \* the remote store: record id -> [label, url]
    statusEnc,  \* encoding of the status property in the remote database
    dir,        \* video files in the download directory, oldest first (owner ids)
    pages,      \* result of the last query: sequence of record ids
    idx,        \* loop index into pages
    url,        \* local variable url of the record being processed
    result,     \* local fetch result: [success, video_path]
    calls,      \* remote / fetch operations issued in the current pass, in order
    report,     \* console lines of the pass function, per record id
    clientLog,  \* console lines of the store-client methods, per record id
    reconciledPrev, \* ids whose terminal status was stored by an earlier pass
    args,       \* arguments of the last update_page_status call
    ret,        \* return value of the last update_page_status call ("none" before)
    pages_need_id, \* main(): the result of the query of the video-id phase
    needId,     \* remote store: the ids of the records whose '抖音id' is empty
    config,     \* notion_config.json, the environment, and main()'s two settings
    probe,      \* a "抖音url" property and what each extractor made of it
    api,        \* one call of _download_video: its circumstances and its result
    gvd,        \* one call of get_videos_to_download: the pages queried and its result
    oss         \* one call of OSSManager.upload_video: its circumstances and its result

\* The state that only the programs of the later sections change.
otherVars == <<pages_need_id, needId, config, probe, api, gvd, oss>>

vars == <<prog, pc, pass, store, statusEnc, dir, pages, idx, url, result,
          calls, report, clientLog, reconciledPrev, args, ret, otherVars>>

----------------------------------------------------------------------------
(* Bounds of the model *)

NumRecords == 2
MaxEntries == 2
MaxPasses == 2

Ids == 1..NumRecords

----------------------------------------------------------------------------
(* Labels of the status field.  The source uses Chinese literals.          *)

PENDING     == "daixiazai"      \* "待下载"
DONE        == "yixiazai"       \* "已下载"
FAILED      == "xiazaishibai"   \* "下载失败"
IN_PROGRESS == "xiazaizhong"    \* "下载中"
REVIEW      == "daishenhe"      \* "待审核"

STATUS_FIELD == "douyin_zhuangtai"  \* "抖音状态"
FILE_FIELD   == "File"

\* Python's None, and the sample strings a field may hold.
NONE == "<None>"
HTTP_URL == "https://v.douyin.com/a/"
HTTP_URL_2 == "http://v.douyin.com/b/"
NO_SCHEME == "v.douyin.com/a/"

Truthy(s) == s # NONE /\ s # ""

----------------------------------------------------------------------------
(* Property values as the store returns them.  keys is the set of keys of  *)
(* the property dict; a missing property has present = FALSE.              *)

TextObj(c) == [isnull |-> FALSE, keys |-> {"content"}, content |-> c]
NullText   == [isnull |-> TRUE, keys |-> {}, content |-> NONE]
TextEntry(c) == [keys |-> {"text"}, text |-> TextObj(c)]
NullTextEntry == [keys |-> {"text"}, text |-> NullText]

\* A rich_text entry without "text" (a mention), and one whose text has no
\* "content".
MentionEntry == [keys |-> {}, text |-> NullText]
NoContentEntry == [keys |-> {"text"}, text |-> [isnull |-> FALSE, keys |-> {}, content |-> NONE]]

\* A property dict with the value keys K; the value of a key that is not in
\* K is not there.
Prop(K, u, rt, tt) ==
    [present |-> TRUE, keys |-> K,
     url |-> IF "url" \in K THEN u ELSE NONE,
     rich_text |-> IF "rich_text" \in K THEN rt ELSE <<>>,
     title |-> IF "title" \in K THEN tt ELSE <<>>]

UrlProp(v) == Prop({"url"}, v, <<>>, <<>>)
RichTextProp(entries) == Prop({"rich_text"}, NONE, entries, <<>>)
TitleProp(entries) == Prop({"title"}, NONE, <<>>, entries)

\* The record has no "抖音url" property.
NoProp == [present |-> FALSE, keys |-> {}, url |-> NONE, rich_text |-> <<>>, title |-> <<>>]

\* The shapes of the URL field the passes are run on.
UrlShapes ==
    { UrlProp(HTTP_URL),
      UrlProp(NO_SCHEME),
      UrlProp(NONE),
      RichTextProp(<<>>),
      RichTextProp(<<NullTextEntry>>) }

\* Encodings of the status property; the last two are not recognized.
StatusEncodings == {"select", "rich_text", "title", "status", "checkbox", "missing"}

----------------------------------------------------------------------------
(* URL extraction *)

\* str.startswith(("http://", "https://")) on the sample strings.
StartsWithScheme(s) == s \in {HTTP_URL, HTTP_URL_2}

Returned(v) == [raised |-> FALSE, value |-> v]
Raised      == [raised |-> TRUE, value |-> NONE]

\* The for loop of NotionManager.get_url_from_page over the rich_text entries.
RECURSIVE NM_scan_rich_text(_)
NM_scan_rich_text(entries) ==
    IF entries = <<>> THEN Returned(NONE)
    ELSE LET text == Head(entries) IN
         IF "text" \notin text.keys THEN NM_scan_rich_text(Tail(entries))
         ELSE IF text.text.isnull THEN Raised            \* "content" in None
         ELSE IF "content" \notin text.text.keys THEN NM_scan_rich_text(Tail(entries))
         ELSE IF text.text.content = NONE THEN Raised    \* None.startswith
         ELSE IF StartsWithScheme(text.text.content) THEN Returned(text.text.content)
         ELSE NM_scan_rich_text(Tail(entries))

\* NotionManager.get_url_from_page, applied to the "抖音url" property.
NM_get_url_from_page(url_prop) ==
    IF ~(url_prop.present /\ url_prop.keys # {}) THEN Returned(NONE)
    ELSE IF "url" \in url_prop.keys THEN Returned(url_prop.url)
    ELSE IF "rich_text" \in url_prop.keys /\ url_prop.rich_text # <<>>
         THEN NM_scan_rich_text(url_prop.rich_text)
    ELSE Returned(NONE)

\* Variant: the last entry of the list is taken.
ND_last_content(entries) ==
    IF entries = <<>> THEN Returned("")
    ELSE LET e == entries[Len(entries)] IN
         IF "text" \notin e.keys THEN Returned("")
         ELSE IF e.text.isnull THEN Raised
         ELSE IF "content" \in e.text.keys THEN Returned(e.text.content)
         ELSE Returned("")

\* rich_texts[0].get("text", {}).get("content", ""), after the guard
\* "if rich_texts and len(rich_texts) > 0" (lines 865-867 and 869-871).
ND_first_content(entries) ==
    IF entries = <<>> THEN Returned("")
    ELSE LET e == entries[1] IN
         IF "text" \notin e.keys THEN Returned("")
         ELSE IF e.text.isnull THEN Raised                       \* None.get
         ELSE IF "content" \in e.text.keys THEN Returned(e.text.content)
         ELSE Returned("")

\* NotionDownloader.get_url_from_page, lines 859-874: the body of the try block.
ND_get_url_from_page_body(url_prop) ==
    IF "url" \in url_prop.keys
    THEN Returned(IF Truthy(url_prop.url) THEN url_prop.url ELSE "")
    ELSE IF "rich_text" \in url_prop.keys THEN ND_first_content(url_prop.rich_text)
    ELSE IF "title" \in url_prop.keys THEN ND_first_content(url_prop.title)
    ELSE Returned("")

\* NotionDownloader.get_url_from_page (the definition at 847-876, which
\* replaces the one at 131-162): the handler at 874-876 returns "".
ND_get_url_from_page(url_prop) ==
    LET r == ND_get_url_from_page_body(url_prop) IN
    IF r.raised THEN Returned("") ELSE r

\* The inline extraction of process_notion_database:
\*   url_property.get("url", "") or
\*   url_property.get("rich_text", [{}])[0].get("text", {}).get("content", "")
PND_extract_url(url_prop) ==
    LET first == IF "url" \in url_prop.keys THEN url_prop.url ELSE "" IN
    IF Truthy(first) THEN Returned(first)
    ELSE IF "rich_text" \notin url_prop.keys THEN Returned("")   \* default [{}]
    ELSE IF url_prop.rich_text = <<>> THEN Raised                \* [][0]: IndexError
    ELSE LET e == url_prop.rich_text[1] IN
         IF "text" \notin e.keys THEN Returned("")
         ELSE IF e.text.isnull THEN Raised                       \* None.get
         ELSE IF "content" \in e.text.keys THEN Returned(e.text.content)
         ELSE Returned("")

----------------------------------------------------------------------------
(* The remote store *)

Call(op, id, tag, label, fields, res) ==
    [op |-> op, id |-> id, tag |-> tag, label |-> label, fields |-> fields, res |-> res]

\* Answers of the store to a request: accepted, answered with a non-success
\* status, or a transport error (the HTTP client raises).
Answers == {"ok", "rejected", "error"}

\* A status patch is accepted only in the encoding the property has.
PatchAnswers(tag) == IF tag = statusEnc THEN Answers ELSE {"rejected", "error"}

\* The store after a patch of the status field: an accepted patch is reflected.
StorePatched(id, label, res) ==
    IF res = "ok" THEN [store EXCEPT ![id].label = label] ELSE store

RECURSIVE IdsMatching(_, _)
IdsMatching(operand, i) ==
    IF i > NumRecords THEN <<>>
    ELSE (IF store[i].label = operand THEN <<i>> ELSE <<>>) \o IdsMatching(operand, i + 1)

RECURSIVE AllIds(_)
AllIds(i) == IF i > NumRecords THEN <<>> ELSE <<i>> \o AllIds(i + 1)

Labels == {PENDING, DONE, FAILED, IN_PROGRESS, REVIEW}

\* The filter of the video-id phase of main() (lines 345-360).
ID_FILTER == "<id empty and url not empty>"

RECURSIVE IdsIn(_, _)
IdsIn(S, i) ==
    IF i > NumRecords THEN <<>>
    ELSE (IF i \in S THEN <<i>> ELSE <<>>) \o IdsIn(S, i + 1)

\* The records a query returns: those whose status label equals the operand
\* of the equality filter.  An operand that is no label cannot be compared;
\* a store that does not validate the filter then answers with every record.
\* For the filter of the video-id phase the store answers with the records
\* that have no video id; the condition on the URL is the store's to apply,
\* and a store that ignores it returns records without a URL as well.
StoreQuery(operand) ==
    IF operand \in Labels THEN IdsMatching(operand, 1)
    ELSE IF operand = ID_FILTER THEN IdsIn(needId, 1)
    ELSE AllIds(1)

\* The property dict of the status field of a retrieved page.
StatusPropKeys == IF statusEnc = "missing" THEN {} ELSE {statusEnc}

----------------------------------------------------------------------------
(* The download directory and the fetch *)

AddFile(d, id) == Append(SelectSeq(d, LAMBDA x : x # id), id)

NoResult == [success |-> FALSE, video_path |-> 0]

\* One download attempt and what was found after it: "failed" when the
\* downloader did not run to completion, else whether the directory holds a video.
Attempt(kind, res) == [kind |-> kind, res |-> res]
AttemptRes(outcome, d) ==
    IF outcome # "handled" THEN "failed" ELSE IF d # <<>> THEN "found" ELSE "no_file"

\* The messages of _download_video (lines 31, 64, 84, 90, 95).
MSG_ID_FAILED == "tiqu zuopin ID shibai"
MSG_OK == "xiazai chenggong"
MSG_NO_FILE == "xiazai wancheng dan wei zhaodao shipin wenjian"
MSG_ERROR == "xiazai guocheng zhong fasheng cuowu"

\* The message _download_video puts into its result.
API_message(outcome, found) ==
    IF outcome = "no_ids" THEN MSG_ID_FAILED
    ELSE IF outcome = "raised" THEN MSG_ERROR
    ELSE IF found THEN MSG_OK ELSE MSG_NO_FILE

\* Variant: no handler around the download; the error leaves the function.
API_download_video_unguarded(d, id, outcome, produced) ==
    LET d2 == IF outcome = "handled" /\ produced THEN AddFile(d, id) ELSE d IN
    [dir |-> d2,
     result |-> IF outcome = "handled" /\ d2 # <<>>
                THEN [success |-> TRUE, video_path |-> d2[Len(d2)]]
                ELSE NoResult,
     message |-> IF outcome = "raised" THEN "" ELSE API_message(outcome, d2 # <<>>),
     raised |-> outcome = "raised",
     attempts |-> <<Attempt("api", AttemptRes(outcome, d2))>>]

\* tiktok_downloader_api._download_video: outcome is how the downloader ran
\* ("no_ids": ID extraction failed, "raised": an error was raised,
\* "handled": _handle_detail returned), produced whether it wrote a video.
\* The newest video found in the directory is reported.  The handler at
\* lines 93-96 turns every error into a result, so nothing is raised.
API_download_video(d, id, outcome, produced) ==
    LET d2 == IF outcome = "handled" /\ produced THEN AddFile(d, id) ELSE d IN
    [dir |-> d2,
     result |-> IF outcome = "handled" /\ d2 # <<>>
                THEN [success |-> TRUE, video_path |-> d2[Len(d2)]]
                ELSE NoResult,
     message |-> API_message(outcome, d2 # <<>>),
     raised |-> FALSE,
     attempts |-> <<Attempt("api", AttemptRes(outcome, d2))>>]

\* Variant: the fallback is also tried after a primary attempt that failed.
ND_simple_download_video_retry(d, id, outcome, produced, rc, produced2) ==
    LET d1 == IF outcome = "handled" /\ produced THEN AddFile(d, id) ELSE d
        d2 == IF rc = 0 /\ produced2 THEN AddFile(d1, id) ELSE d1
        first == Attempt("primary", AttemptRes(outcome, d1))
    IN  IF outcome = "handled" /\ d1 # <<>>
        THEN [dir |-> d1,
              result |-> [success |-> TRUE, video_path |-> d1[Len(d1)]],
              attempts |-> <<first>>]
        ELSE [dir |-> d2,
              result |-> IF rc = 0 /\ d2 # <<>>
                         THEN [success |-> TRUE, video_path |-> d2[Len(d2)]]
                         ELSE NoResult,
              attempts |-> <<first,
                             Attempt("fallback",
                                     IF rc # 0 THEN "failed"
                                     ELSE IF d2 # <<>> THEN "found" ELSE "no_file")>>]

\* NotionDownloader.simple_download_video: the primary attempt, and when no
\* video file is found after it, the subprocess fallback (rc is its return
\* code, produced2 whether it wrote a video).
ND_simple_download_video(d, id, outcome, produced, rc, produced2) ==
    LET d1 == IF outcome = "handled" /\ produced THEN AddFile(d, id) ELSE d
        d2 == IF rc = 0 /\ produced2 THEN AddFile(d1, id) ELSE d1
        first == Attempt("primary", AttemptRes(outcome, d1))
    IN  IF outcome # "handled"
        THEN [dir |-> d1, result |-> NoResult, attempts |-> <<first>>]
        ELSE IF d1 # <<>>
        THEN [dir |-> d1,
              result |-> [success |-> TRUE, video_path |-> d1[Len(d1)]],
              attempts |-> <<first>>]
        ELSE [dir |-> d2,
              result |-> IF rc = 0 /\ d2 # <<>>
                         THEN [success |-> TRUE, video_path |-> d2[Len(d2)]]
                         ELSE NoResult,
              attempts |-> <<first,
                             Attempt("fallback",
                                     IF rc # 0 THEN "failed"
                                     ELSE IF d2 # <<>> THEN "found" ELSE "no_file")>>]

----------------------------------------------------------------------------
(* Initial state: the store holds pending records with any URL shape *)

\* notion_config.json: absent, not parseable as JSON, or a JSON object.  A
\* key that is missing reads as "" (config.get(key, "")).
F_TOKEN == "secret_from_file"
F_DB == "database_from_file"
E_TOKEN == "secret_from_env"
E_DB == "database_from_env"

ObjectFile(token, db) == [kind |-> "object", notion_token |-> token, database_id |-> db]
AbsentFile == [kind |-> "absent", notion_token |-> "", database_id |-> ""]
InvalidFile == [kind |-> "invalid", notion_token |-> "", database_id |-> ""]

ConfigFiles ==
    {AbsentFile, InvalidFile}
      \cup {ObjectFile(t, d) : t \in {"", F_TOKEN}, d \in {"", F_DB}}

\* The environment: a variable that is not set reads as "" (environ.get(name, "")).
Environments == [NOTION_TOKEN : {"", E_TOKEN}, NOTION_DATABASE_ID : {"", E_DB}]
NoEnv == [NOTION_TOKEN |-> "", NOTION_DATABASE_ID |-> ""]

\* Before main() has run: the two locals are not assigned.
Unloaded(f, e) == [file |-> f, env |-> e, notion_token |-> NONE, database_id |-> NONE]

\* The properties the extractors are tried on.
Contents == {HTTP_URL, HTTP_URL_2, NO_SCHEME, "", NONE}
Entries ==
    {TextEntry(c) : c \in Contents} \cup {NullTextEntry, MentionEntry, NoContentEntry}
EntryLists == UNION {[1..n -> Entries] : n \in 0..MaxEntries}
ShortLists == {<<>>, <<TextEntry(HTTP_URL)>>}
ValueKeys == {"url", "rich_text", "title"}

ProbeProps ==
    {NoProp}
      \cup {Prop({}, NONE, <<>>, <<>>)}
      \cup {UrlProp(u) : u \in Contents}
      \cup {RichTextProp(l) : l \in EntryLists}
      \cup {TitleProp(l) : l \in EntryLists}
      \cup {Prop(K, u, rt, tt) :
              K \in {L \in SUBSET ValueKeys : Cardinality(L) >= 2},
              u \in {HTTP_URL, "", NONE}, rt \in ShortLists, tt \in ShortLists}

NOT_RUN == "<not run>"
NotProbed(p) == [prop |-> p, nm |-> NOT_RUN, nd |-> NOT_RUN]

\* The encodings of the status property the passes are run on: the one
\* main() writes and the one process_notion_database writes.
PassEncodings == {"status", "select"}

\* The stores the passes are run on: every record pending, with a URL field
\* of one of the shapes; the value without a scheme is tried on the first
\* record.
PassStores ==
    {s \in [Ids -> [label : {PENDING}, url : UrlShapes]] :
       \A i \in Ids \ {1} : s[i].url # UrlProp(NO_SCHEME)}

\* The circumstances _download_video is called in: the videos already in
\* the output directory, how the downloader runs, whether it writes a video.
ApiInputs == [dir : {<<>>, <<2>>}, outcome : {"no_ids", "raised", "handled"},
              produced : BOOLEAN]
NotCalled(in) == [in |-> in, called |-> FALSE, success |-> FALSE, video_path |-> 0,
                  message |-> "", raised |-> FALSE]

\* Pages as the unfiltered query of get_videos_to_download returns them: the
\* '抖音状态' property (its value keys, the name of a select or status value,
\* the entries of a rich_text or title value) and the '抖音url' property; a
\* page whose "properties" is null has neither.
StatusProp(K, name, entries) == [keys |-> K, name |-> name, entries |-> entries]
GvdPage(sp, up) == [properties_null |-> FALSE, status |-> sp, url |-> up]
NullPropertiesPage ==
    [properties_null |-> TRUE, status |-> StatusProp({}, NONE, <<>>), url |-> NoProp]

GvdPageShapes ==
    { GvdPage(StatusProp({"select"}, PENDING, <<>>), UrlProp(HTTP_URL)),
      GvdPage(StatusProp({"status"}, PENDING, <<>>), UrlProp(HTTP_URL)),
      GvdPage(StatusProp({"rich_text"}, NONE, <<TextEntry(PENDING)>>), UrlProp(HTTP_URL)),
      GvdPage(StatusProp({"title"}, NONE, <<TextEntry(PENDING)>>),
              TitleProp(<<TextEntry(HTTP_URL_2)>>)),
      GvdPage(StatusProp({"select"}, DONE, <<>>), UrlProp(HTTP_URL)),
      GvdPage(StatusProp({"select"}, NONE, <<>>), UrlProp(HTTP_URL)),
      GvdPage(StatusProp({"status"}, NONE, <<>>), UrlProp(HTTP_URL)),
      GvdPage(StatusProp({}, NONE, <<>>), UrlProp(HTTP_URL)),
      GvdPage(StatusProp({"select"}, PENDING, <<>>), UrlProp(NONE)),
      GvdPage(StatusProp({"select"}, PENDING, <<>>), RichTextProp(<<>>)),
      GvdPage(StatusProp({"select"}, PENDING, <<>>), RichTextProp(<<NullTextEntry>>)),
      GvdPage(StatusProp({"select"}, PENDING, <<>>), NoProp),
      NullPropertiesPage }

GvdInputs == [pages : [Ids -> GvdPageShapes], res : Answers]
NotListed(in) == [in |-> in, called |-> FALSE, videos |-> <<>>]

\* Paths and keys are sequences of characters.  The circumstances of one
\* upload: the path and whether a file is there, whether it can be opened,
\* whether put_object returns or raises, and whether the configuration has
\* a 'base_url'.  A message is a sequence of one element.
OSS_BASE_URL == <<"h", ":", "/", "/", "c">>
OssPaths == { <<"a", ".", "m">>, <<"a">>, <<".", "m">>,
              <<"d", ".", "e", "/", "a">>, <<"d", "/", "a", ".", "m">> }
OssInputs == [video_path : OssPaths, video_id : {<<"7">>, <<"8">>},
              exists : BOOLEAN, open : {"ok", "error"}, put : {"ok", "error"},
              has_base_url : BOOLEAN]
NotUploaded(in) == [in |-> in, called |-> FALSE, raised |-> FALSE, success |-> FALSE,
                    value |-> <<>>, puts |-> <<>>]

NoLines == [i \in Ids |-> <<>>]

Init ==
    /\ prog \in {"main", "pnd", "ups", "client", "idp", "nd_start", "probe", "api", "gvd", "oss"}
    /\ pc = IF prog \in {"ups", "client", "probe", "api", "gvd", "oss"} THEN "idle"
            ELSE IF prog \in {"idp", "nd_start"} THEN "start" ELSE "query"
    /\ pass = 1
    /\ store \in IF prog \in {"main", "pnd", "idp"}
                THEN PassStores
                ELSE {[i \in Ids |-> [label |-> PENDING, url |-> UrlProp(HTTP_URL)]]}
    /\ statusEnc \in IF prog \in {"ups", "client"} THEN StatusEncodings
                    ELSE IF prog \in {"main", "pnd"} THEN PassEncodings
                    ELSE {"status"}
    /\ dir = <<>>
    /\ pages = <<>>
    /\ idx = 0
    /\ url = NONE
    /\ result = NoResult
    /\ calls = <<>>
    /\ report = NoLines
    /\ clientLog = NoLines
    /\ reconciledPrev = {}
    /\ args = [page_id |-> 0, status |-> NONE]
    /\ ret = "none"
    /\ pages_need_id = <<>>
    /\ needId \in IF prog = "idp" THEN SUBSET Ids ELSE {Ids}
    /\ config \in IF prog = "idp" THEN {Unloaded(f, NoEnv) : f \in ConfigFiles}
                 ELSE IF prog = "nd_start"
                 THEN {Unloaded(f, e) : f \in ConfigFiles, e \in Environments}
                 ELSE {Unloaded(ObjectFile(F_TOKEN, F_DB), NoEnv)}
    /\ probe \in IF prog = "probe" THEN {NotProbed(p) : p \in ProbeProps}
                ELSE {NotProbed(NoProp)}
    /\ api \in IF prog = "api" THEN {NotCalled(in) : in \in ApiInputs}
              ELSE {NotCalled([dir |-> <<>>, outcome |-> "handled", produced |-> TRUE])}
    /\ gvd \in IF prog = "gvd" THEN {NotListed(in) : in \in GvdInputs}
              ELSE {NotListed([pages |-> <<>>, res |-> "ok"])}
    /\ oss \in IF prog = "oss" THEN {NotUploaded(in) : in \in OssInputs}
              ELSE {NotUploaded([video_path |-> <<"a">>, video_id |-> <<"7">>,
                                 exists |-> TRUE, open |-> "ok", put |-> "ok",
                                 has_base_url |-> TRUE])}

Say(log, id, lines) == [log EXCEPT ![id] = @ \o lines]

\* The loop "for page in pages" moves to the next page or ends.
NextPc == IF idx < Len(pages) THEN "extract" ELSE "done"

----------------------------------------------------------------------------
(* notion_downloader_main.py: the download pass of main() *)

\* The equality operand of the filter main() builds for the download query.
MAIN_filter_operand == PENDING

\* Variant: the filter is not sent, the store answers with every record.
NM_query_database_unfiltered(operand, res) ==
    IF res = "ok" THEN Returned(AllIds(1)) ELSE Returned(<<>>)

\* NotionManager.query_database, lines 69-87: the 'results' of an answer with
\* status 200; [] for any other status (75-77) and for an exception (82-87).
NM_query_database(operand, res) ==
    IF res = "ok" THEN Returned(StoreQuery(operand))
    ELSE IF res = "rejected" THEN Returned(<<>>)
    ELSE Returned(<<>>)

\* main(), lines 385-402: query the pending records; return when there are
\* none.  An exception of the query would reach the handler at line 408.
MainQuery ==
    /\ prog = "main" /\ pc = "query"
    /\ \E res \in Answers :
         LET r == NM_query_database(MAIN_filter_operand, res)
             got == IF r.raised THEN <<>> ELSE r.value IN
         /\ pages' = got
         /\ calls' = Append(calls, Call("query", 0, "status", MAIN_filter_operand, {}, res))
         /\ idx' = IF got = <<>> THEN 0 ELSE 1
         /\ pc' = IF r.raised THEN "failed"
                  ELSE IF got = <<>> THEN "done" ELSE "extract"
    /\ UNCHANGED <<otherVars, prog, pass, store, statusEnc, dir, url, result, report,
                   clientLog, reconciledPrev, args, ret>>

\* download_and_update, lines 241-249.  An exception of get_url_from_page
\* leaves download_and_update and the loop; main() catches it at line 408.
DU_Extract ==
    /\ prog = "main" /\ pc = "extract"
    /\ LET id == pages[idx]
           r == NM_get_url_from_page(store[id].url) IN
       IF r.raised
       THEN /\ pc' = "done"
            /\ report' = Say(report, id, <<"run_error">>)
            /\ UNCHANGED <<idx, url>>
       ELSE IF ~Truthy(r.value)
       THEN /\ pc' = NextPc
            /\ idx' = idx + 1
            /\ report' = Say(report, id, <<"skip_no_url">>)
            /\ UNCHANGED url
       ELSE /\ pc' = "fetch"
            /\ url' = r.value
            /\ report' = Say(report, id, <<"start">>)
            /\ UNCHANGED idx
    /\ UNCHANGED <<otherVars, prog, pass, store, statusEnc, dir, pages, result, calls,
                   clientLog, reconciledPrev, args, ret>>

FetchOutcomes == {"no_ids", "raised", "handled"}

\* The log of one invocation of the fetch: the invocation with its result,
\* then the download attempts made inside it.
FetchCalls(id, fn, u, f) ==
    <<Call("fetch", id, fn, u, {}, IF f.result.success THEN "success" ELSE "failure")>>
    \o [k \in 1..Len(f.attempts) |->
          Call("attempt", id, f.attempts[k].kind, u, {}, f.attempts[k].res)]

\* Variant: the fetch of the next page is started together with this one.
DU_Fetch_prefetch ==
    /\ prog = "main" /\ pc = "fetch"
    /\ \E outcome \in FetchOutcomes, produced \in BOOLEAN :
         LET id == pages[idx]
             f == API_download_video(dir, id, outcome, produced) IN
         /\ dir' = f.dir
         /\ result' = f.result
         /\ calls' = calls \o FetchCalls(id, "_download_video", url, f)
                           \o (IF idx < Len(pages)
                               THEN FetchCalls(pages[idx + 1], "_download_video", url, f)
                               ELSE <<>>)
    /\ pc' = "write"
    /\ UNCHANGED <<otherVars, prog, pass, store, statusEnc, pages, idx, url, report,
                   clientLog, reconciledPrev, args, ret>>

\* download_and_update, line 252: result = await _download_video(url, False, download_dir)
DU_Fetch ==
    /\ prog = "main" /\ pc = "fetch"
    /\ \E outcome \in FetchOutcomes, produced \in BOOLEAN :
         LET id == pages[idx]
             f == API_download_video(dir, id, outcome, produced) IN
         /\ dir' = f.dir
         /\ result' = f.result
         /\ calls' = calls \o FetchCalls(id, "_download_video", url, f)
    /\ pc' = "write"
    /\ UNCHANGED <<otherVars, prog, pass, store, statusEnc, pages, idx, url, report,
                   clientLog, reconciledPrev, args, ret>>

\* Variant: the two branches of the result test exchanged.
DU_status_label_swapped(success) == IF success THEN FAILED ELSE DONE

\* The label download_and_update writes for a fetch result (lines 258-271).
DU_status_label(success) == IF success THEN DONE ELSE FAILED

\* The payload tag of NotionManager.update_page_status (lines 135-141).
NM_status_tag == "status"

\* Variant: True for every answer that arrives, whatever its status.
NM_update_returns_any_answer(res) == res # "error"

\* NotionManager.update_page_status returns True only for a 200 answer.
NM_update_returns(res) == res = "ok"

\* download_and_update, lines 254-274, with NotionManager.update_page_status.
DU_Write ==
    /\ prog = "main" /\ pc = "write"
    /\ \E res \in PatchAnswers(NM_status_tag) :
         LET id == pages[idx]
             label == DU_status_label(result.success) IN
         /\ calls' = Append(calls, Call("patch", id, NM_status_tag, label, {STATUS_FIELD}, res))
         /\ store' = StorePatched(id, label, res)
         /\ clientLog' = IF res = "ok" THEN clientLog
                         ELSE Say(clientLog, id,
                                  <<IF res = "rejected" THEN "update_rejected" ELSE "update_error">>)
         /\ report' = Say(report, id,
                          <<IF result.success THEN "dl_ok" ELSE "dl_fail",
                            IF NM_update_returns(res) THEN "status_updated"
                                                      ELSE "status_update_failed">>)
    /\ pc' = NextPc
    /\ idx' = idx + 1
    /\ UNCHANGED <<otherVars, prog, pass, statusEnc, dir, pages, url, result, reconciledPrev, args, ret>>

TerminalLabels == {DONE, FAILED, REVIEW}

\* The ids whose terminal status the store took over in the pass just run.
Reconciled ==
    {i \in Ids : \E k \in 1..Len(calls) :
        /\ calls[k].op = "patch" /\ calls[k].id = i
        /\ calls[k].label \in TerminalLabels /\ calls[k].res = "ok"}

\* The entry script is run again: a new pass of main() against the same store.
NextPass ==
    /\ prog = "main" /\ pc = "done" /\ pass < MaxPasses
    /\ pass' = pass + 1
    /\ pc' = "query"
    /\ reconciledPrev' = reconciledPrev \cup Reconciled
    /\ calls' = <<>>
    /\ report' = NoLines
    /\ clientLog' = NoLines
    /\ pages' = <<>>
    /\ idx' = 0
    /\ url' = NONE
    /\ result' = NoResult
    /\ UNCHANGED <<otherVars, prog, store, statusEnc, dir, args, ret>>

----------------------------------------------------------------------------
(* src/notion_downloader.py: NotionDownloader.process_notion_database *)

\* What process_notion_database hands to query_database as its status
\* argument (lines 619-630): the whole filter dict, which query_database
\* places as the operand of "equals" (lines 111-119).
PND_FILTER_DICT == "<filter dict>"
PND_filter_operand == PND_FILTER_DICT

\* Variant: the query is issued outside the try block.
ND_query_database_unguarded(operand, res) ==
    IF res = "ok" THEN Returned(StoreQuery(operand)) ELSE Raised

\* NotionDownloader.query_database, lines 108-129: the 'results' of the
\* answer (123-125); the client raises for a refused request as well as for
\* a transport failure, and the except block returns [] (126-129).
ND_query_database(operand, res) ==
    IF res = "ok" THEN Returned(StoreQuery(operand)) ELSE Returned(<<>>)

\* process_notion_database, lines 630-636.  The query is awaited outside the
\* per-page try block: an exception of it would leave the function.
PndQuery ==
    /\ prog = "pnd" /\ pc = "query"
    /\ \E res \in Answers :
         LET r == ND_query_database(PND_filter_operand, res)
             got == IF r.raised THEN <<>> ELSE r.value IN
         /\ pages' = got
         /\ calls' = Append(calls, Call("query", 0, "status", PND_filter_operand, {}, res))
         /\ idx' = IF got = <<>> THEN 0 ELSE 1
         /\ pc' = IF r.raised THEN "crashed"
                  ELSE IF got = <<>> THEN "done" ELSE "extract"
    /\ UNCHANGED <<otherVars, prog, pass, store, statusEnc, dir, url, result, report,
                   clientLog, reconciledPrev, args, ret>>

\* Variant: the loop goes from the extraction straight to the fetch, without
\* the in-progress write.
PND_Extract_unmarked ==
    /\ prog = "pnd" /\ pc = "extract"
    /\ LET id == pages[idx]
           r == PND_extract_url(store[id].url) IN
       IF r.raised
       THEN /\ pc' = "handler"
            /\ UNCHANGED <<idx, url, report>>
       ELSE IF ~Truthy(r.value)
       THEN /\ pc' = NextPc
            /\ idx' = idx + 1
            /\ report' = Say(report, id, <<"no_url">>)
            /\ UNCHANGED url
       ELSE /\ pc' = "fetch"
            /\ url' = r.value
            /\ UNCHANGED <<idx, report>>
    /\ UNCHANGED <<otherVars, prog, pass, store, statusEnc, dir, pages, result, calls,
                   clientLog, reconciledPrev, args, ret>>

\* process_notion_database, lines 639-649: the inline URL extraction.
PND_Extract ==
    /\ prog = "pnd" /\ pc = "extract"
    /\ LET id == pages[idx]
           r == PND_extract_url(store[id].url) IN
       IF r.raised
       THEN /\ pc' = "handler"
            /\ UNCHANGED <<idx, url, report>>
       ELSE IF ~Truthy(r.value)
       THEN /\ pc' = NextPc
            /\ idx' = idx + 1
            /\ report' = Say(report, id, <<"no_url">>)
            /\ UNCHANGED url
       ELSE /\ pc' = "mark"
            /\ url' = r.value
            /\ UNCHANGED <<idx, report>>
    /\ UNCHANGED <<otherVars, prog, pass, store, statusEnc, dir, pages, result, calls,
                   clientLog, reconciledPrev, args, ret>>

\* The payload tag process_notion_database writes the status with.
PND_status_tag == "select"

\* Variant: a non-200 answer raises as well (raise_for_status).
ND_update_raises_on_reject(res) == res # "ok"

\* NotionDownloader.update_page_properties (lines 352-376) has no try: a
\* transport error raises to the caller; a non-200 answer is logged and
\* returns False.
ND_update_raises(res) == res = "error"

ND_update_log(log, id, res) ==
    IF res = "rejected" THEN Say(log, id, <<"update_rejected">>) ELSE log

\* process_notion_database, lines 651-661: the in-progress write.
PND_Mark ==
    /\ prog = "pnd" /\ pc = "mark"
    /\ \E res \in PatchAnswers(PND_status_tag) :
         LET id == pages[idx] IN
         /\ calls' = Append(calls,
                Call("patch", id, PND_status_tag, IN_PROGRESS, {STATUS_FIELD}, res))
         /\ store' = StorePatched(id, IN_PROGRESS, res)
         /\ clientLog' = ND_update_log(clientLog, id, res)
         /\ IF ND_update_raises(res)
            THEN pc' = "handler" /\ UNCHANGED report
            ELSE pc' = "fetch" /\ report' = Say(report, id, <<"downloading">>)
    /\ UNCHANGED <<otherVars, prog, pass, statusEnc, dir, pages, idx, url, result,
                   reconciledPrev, args, ret>>

\* process_notion_database, line 662: download_video -> simple_download_video.
PND_Fetch ==
    /\ prog = "pnd" /\ pc = "fetch"
    /\ \E outcome \in FetchOutcomes, produced \in BOOLEAN,
          rc \in {0, 1}, produced2 \in BOOLEAN :
         LET id == pages[idx]
             f == ND_simple_download_video(dir, id, outcome, produced, rc, produced2) IN
         /\ dir' = f.dir
         /\ result' = f.result
         /\ calls' = calls \o FetchCalls(id, "download_video", url, f)
    /\ pc' = "write"
    /\ UNCHANGED <<otherVars, prog, pass, store, statusEnc, pages, idx, url, report,
                   clientLog, reconciledPrev, args, ret>>

\* The label and the fields of the terminal write (lines 664-691).
PND_status_label(found) == IF found THEN REVIEW ELSE FAILED
\* Variant: the failure write carries the 'File' property as well.
PND_status_fields_with_file(found) == {STATUS_FIELD, FILE_FIELD}

PND_status_fields(found) == IF found THEN {STATUS_FIELD, FILE_FIELD} ELSE {STATUS_FIELD}

\* process_notion_database, lines 664-692: the terminal write.  The return
\* value of update_page_properties is not looked at.
PND_Write ==
    /\ prog = "pnd" /\ pc = "write"
    /\ \E res \in PatchAnswers(PND_status_tag) :
         LET id == pages[idx]
             label == PND_status_label(result.success) IN
         /\ calls' = Append(calls, Call("patch", id, PND_status_tag, label,
                                        PND_status_fields(result.success), res))
         /\ store' = StorePatched(id, label, res)
         /\ clientLog' = ND_update_log(clientLog, id, res)
         /\ IF ND_update_raises(res)
            THEN pc' = "handler" /\ UNCHANGED <<idx, report>>
            ELSE /\ pc' = NextPc
                 /\ idx' = idx + 1
                 /\ report' = Say(report, id,
                                  <<IF result.success THEN "success" ELSE "failed">>)
    /\ UNCHANGED <<otherVars, prog, pass, statusEnc, dir, pages, url, result, reconciledPrev, args, ret>>

\* process_notion_database, lines 694-703: the except block writes the
\* failed status; an error of that write leaves process_notion_database.
PND_Handler ==
    /\ prog = "pnd" /\ pc = "handler"
    /\ \E res \in PatchAnswers(PND_status_tag) :
         LET id == pages[idx] IN
         /\ calls' = Append(calls,
                Call("patch", id, PND_status_tag, FAILED, {STATUS_FIELD}, res))
         /\ store' = StorePatched(id, FAILED, res)
         /\ clientLog' = ND_update_log(clientLog, id, res)
         /\ report' = Say(report, id, <<"page_error">>)
         /\ IF ND_update_raises(res)
            THEN pc' = "crashed" /\ UNCHANGED idx
            ELSE pc' = NextPc /\ idx' = idx + 1
    /\ UNCHANGED <<otherVars, prog, pass, statusEnc, dir, pages, url, result, reconciledPrev, args, ret>>

----------------------------------------------------------------------------
(* src/notion_downloader.py: NotionDownloader.update_page_status *)

\* Variant: an encoding that is not recognized is taken to be a select.
ND_status_type_guess(keys) ==
    IF "select" \in keys THEN "select"
    ELSE IF "rich_text" \in keys THEN "rich_text"
    ELSE IF "title" \in keys THEN "title"
    ELSE IF "status" \in keys THEN "status"
    ELSE "select"

\* Lines 183-193: the encoding found on the retrieved page.
ND_status_type(keys) ==
    IF "select" \in keys THEN "select"
    ELSE IF "rich_text" \in keys THEN "rich_text"
    ELSE IF "title" \in keys THEN "title"
    ELSE IF "status" \in keys THEN "status"
    ELSE NONE

\* Variant: the rich_text and title payloads exchanged.
ND_payload_tag_mixed(status_type) ==
    IF status_type = "select" THEN "select"
    ELSE IF status_type = "rich_text" THEN "title"
    ELSE IF status_type = "title" THEN "rich_text"
    ELSE IF status_type = "status" THEN "status"
    ELSE NONE

\* Lines 196-239: the tag of the payload built for an encoding; NONE when
\* the method returns False without building one.
ND_payload_tag(status_type) ==
    IF status_type = "select" THEN "select"
    ELSE IF status_type = "rich_text" THEN "rich_text"
    ELSE IF status_type = "title" THEN "title"
    ELSE IF status_type = "status" THEN "status"
    ELSE NONE

\* Variant: the answer of the retrieve is not looked at; the update is sent
\* with the select payload when no page came back.
UPS_Call_unchecked ==
    /\ prog = "ups" /\ pc = "idle"
    /\ \E id \in Ids, status \in {DONE, FAILED}, rres \in {"page", "none", "error"} :
         LET get == Call("get", id, "", "", {}, rres)
             tag == IF rres = "page" THEN ND_payload_tag(ND_status_type(StatusPropKeys))
                    ELSE "select" IN
         /\ args' = [page_id |-> id, status |-> status]
         /\ IF tag = NONE
            THEN /\ calls' = <<get>>
                 /\ ret' = "false"
                 /\ UNCHANGED store
            ELSE \E ures \in PatchAnswers(tag) :
                 /\ calls' = <<get, Call("update", id, tag, status, {STATUS_FIELD}, ures)>>
                 /\ store' = StorePatched(id, status, ures)
                 /\ ret' = IF ures = "ok" THEN "true" ELSE "false"
    /\ UNCHANGED <<otherVars, prog, pc, pass, statusEnc, dir, pages, idx, url, result, report,
                   clientLog, reconciledPrev>>

\* One call update_page_status(page_id, status): retrieve the page (rres is
\* the answer: a page, nothing, or an error), find the encoding, update.
UPS_Call ==
    /\ prog = "ups" /\ pc = "idle"
    /\ \E id \in Ids, status \in {DONE, FAILED}, rres \in {"page", "none", "error"} :
         LET get == Call("get", id, "", "", {}, rres)
             tag == ND_payload_tag(ND_status_type(StatusPropKeys)) IN
         /\ args' = [page_id |-> id, status |-> status]
         /\ IF rres # "page" \/ tag = NONE
            THEN /\ calls' = <<get>>
                 /\ ret' = "false"
                 /\ UNCHANGED store
            ELSE \E ures \in PatchAnswers(tag) :
                 /\ calls' = <<get, Call("update", id, tag, status, {STATUS_FIELD}, ures)>>
                 /\ store' = StorePatched(id, status, ures)
                 /\ ret' = IF ures = "ok" THEN "true" ELSE "false"
    /\ UNCHANGED <<otherVars, prog, pc, pass, statusEnc, dir, pages, idx, url, result, report,
                   clientLog, reconciledPrev>>

----------------------------------------------------------------------------
(* notion_downloader.py: the two HTTP operations of NotionDownloader, called
   directly *)

\* NotionDownloader.get_page, lines 341-350: the page of an answer with
\* status 200, None for another status.  The request is not inside a try
\* block: an error of the transport leaves the function as an exception.
ND_get_page(res) ==
    IF res = "error" THEN Raised
    ELSE IF res = "rejected" THEN Returned(NONE)
    ELSE Returned("page")

\* NotionDownloader.update_page_properties, lines 362-376: True for status
\* 200, False for another status; no try block around the request.
ND_update_page_properties(res) ==
    IF ND_update_raises(res) THEN Raised
    ELSE IF res = "rejected" THEN Returned("false")
    ELSE Returned("true")

\* What a caller observes of a call: its value, or the exception.
Observed(r) == IF r.raised THEN "raised" ELSE r.value

\* One call get_page(page_id).
GP_Call ==
    /\ prog = "client" /\ pc = "idle"
    /\ \E id \in Ids, res \in Answers :
         /\ args' = [page_id |-> id, status |-> NONE]
         /\ calls' = <<Call("get", id, "", "", {}, res)>>
         /\ ret' = Observed(ND_get_page(res))
    /\ UNCHANGED <<otherVars, prog, pc, pass, store, statusEnc, dir, pages, idx, url, result,
                   report, clientLog, reconciledPrev>>

\* One call update_page_properties(page_id, properties) with a status
\* property in the encoding tag.
UPP_Call ==
    /\ prog = "client" /\ pc = "idle"
    /\ \E id \in Ids, status \in {DONE, FAILED}, tag \in {"select", "status"} :
       \E res \in PatchAnswers(tag) :
         /\ args' = [page_id |-> id, status |-> status]
         /\ calls' = <<Call("patch", id, tag, status, {STATUS_FIELD}, res)>>
         /\ store' = StorePatched(id, status, res)
         /\ ret' = Observed(ND_update_page_properties(res))
    /\ UNCHANGED <<otherVars, prog, pc, pass, statusEnc, dir, pages, idx, url, result,
                   report, clientLog, reconciledPrev>>

----------------------------------------------------------------------------
(* notion_downloader_main.py: the start of main(), lines 292-341 *)

\* main(), lines 328-334: "if not notion_token: return", "if not database_id: return".
MAIN_config_missing(token, db) == ~Truthy(token) \/ ~Truthy(db)

\* main(), lines 292-334: return when the file is absent (294-305) or not
\* parseable (322-325); else take the two settings from the file and return
\* when one of them is empty.  Only then the manager is created and the
\* query of the video-id phase is issued.
MainStart ==
    /\ prog = "idp" /\ pc = "start"
    /\ IF config.file.kind # "object"
       THEN pc' = "returned" /\ UNCHANGED config
       ELSE LET token == config.file.notion_token
                db == config.file.database_id IN
            /\ config' = [config EXCEPT !.notion_token = token, !.database_id = db]
            /\ pc' = IF MAIN_config_missing(token, db) THEN "returned" ELSE "idquery"
    /\ UNCHANGED <<prog, pass, store, statusEnc, dir, pages, idx, url, result, calls,
                   report, clientLog, reconciledPrev, args, ret, pages_need_id, needId, probe, api, gvd, oss>>

----------------------------------------------------------------------------
(* notion_downloader.py: main(), lines 879-904 *)

\* main(), lines 883-895: the two settings come from the environment; when
\* one of them is empty the file is read and BOTH are assigned from it
\* (892-893); a file that is absent or not parseable leaves them as they are.
ND_main_settings(c) ==
    LET token == c.env.NOTION_TOKEN
        db == c.env.NOTION_DATABASE_ID IN
    IF (~Truthy(token) \/ ~Truthy(db)) /\ c.file.kind = "object"
    THEN [notion_token |-> c.file.notion_token, database_id |-> c.file.database_id]
    ELSE [notion_token |-> token, database_id |-> db]

\* Variant: the start is refused only when both settings are empty.
ND_config_missing_both(token, db) == ~Truthy(token) /\ ~Truthy(db)

\* main(), line 897: "if not notion_token or not database_id".
ND_config_missing(token, db) == ~Truthy(token) \/ ~Truthy(db)

\* main(), lines 883-901.
NdStart ==
    /\ prog = "nd_start" /\ pc = "start"
    /\ LET s == ND_main_settings(config) IN
       /\ config' = [config EXCEPT !.notion_token = s.notion_token,
                                   !.database_id = s.database_id]
       /\ pc' = IF ND_config_missing(s.notion_token, s.database_id)
                THEN "returned" ELSE "run"
    /\ UNCHANGED <<prog, pass, store, statusEnc, dir, pages, idx, url, result, calls,
                   report, clientLog, reconciledPrev, args, ret, pages_need_id, needId, probe, api, gvd, oss>>

\* main(), lines 903-904: downloader.run() -> process_notion_database, whose
\* first remote operation is the query (630); the pass over its result is
\* the process_notion_database section above.
NdRun ==
    /\ prog = "nd_start" /\ pc = "run"
    /\ \E res \in Answers :
         LET r == ND_query_database(PND_filter_operand, res) IN
         /\ pages' = IF r.raised THEN <<>> ELSE r.value
         /\ calls' = Append(calls, Call("query", 0, "status", PND_filter_operand, {}, res))
         /\ pc' = IF r.raised THEN "crashed" ELSE "running"
    /\ UNCHANGED <<otherVars, prog, pass, store, statusEnc, dir, idx, url, result,
                   report, clientLog, reconciledPrev, args, ret>>

----------------------------------------------------------------------------
(* notion_downloader_main.py: the video-id phase of main(), lines 343-395 *)

ID_FIELD == "douyin_id"
VIDEO_ID == "7300000000000000001"

\* The loop "for page in pages_need_id" moves to the next page, or main()
\* goes on to the download query.
IdNextPc == IF idx < Len(pages_need_id) THEN "idextract" ELSE "dlquery"

\* main(), lines 343-366 and 382-383: the query of the records that need a
\* video id.
IdQuery ==
    /\ prog = "idp" /\ pc = "idquery"
    /\ \E res \in Answers :
         LET r == NM_query_database(ID_FILTER, res)
             got == IF r.raised THEN <<>> ELSE r.value IN
         /\ pages_need_id' = got
         /\ calls' = Append(calls, Call("query", 0, "filter", ID_FILTER, {}, res))
         /\ idx' = IF got = <<>> THEN 0 ELSE 1
         /\ pc' = IF r.raised THEN "failed"
                  ELSE IF got = <<>> THEN "dlquery" ELSE "idextract"
    /\ UNCHANGED <<prog, pass, store, statusEnc, dir, pages, url, result, report,
                   clientLog, reconciledPrev, args, ret, needId, config, probe, api, gvd, oss>>

\* main(), lines 369-374.  An exception of get_url_from_page leaves the loop
\* and the try block; the handler at line 408 ends the run.
IdExtract ==
    /\ prog = "idp" /\ pc = "idextract"
    /\ LET id == pages_need_id[idx]
           r == NM_get_url_from_page(store[id].url) IN
       IF r.raised
       THEN /\ pc' = "failed"
            /\ report' = Say(report, id, <<"run_error">>)
            /\ UNCHANGED <<idx, url>>
       ELSE IF ~Truthy(r.value)
       THEN /\ pc' = IdNextPc
            /\ idx' = idx + 1
            /\ UNCHANGED <<url, report>>
       ELSE /\ pc' = "idresolve"
            /\ url' = r.value
            /\ report' = Say(report, id, <<"resolving">>)
            /\ UNCHANGED idx
    /\ UNCHANGED <<prog, pass, store, statusEnc, dir, pages, result, calls,
                   clientLog, reconciledPrev, args, ret, pages_need_id, needId, config, probe, api, gvd, oss>>

\* NotionManager.get_video_id, lines 177-185: the id in the final URL of the
\* redirect chain; None for any exception (request failed, no "/video/").
NM_get_video_id(outcome) == IF outcome = "resolved" THEN VIDEO_ID ELSE NONE

\* main(), lines 375-377.
IdResolve ==
    /\ prog = "idp" /\ pc = "idresolve"
    /\ \E outcome \in {"resolved", "no_video_part", "error"} :
         LET id == pages_need_id[idx]
             video_id == NM_get_video_id(outcome) IN
         /\ calls' = Append(calls, Call("resolve", id, "get_video_id", url, {}, outcome))
         /\ IF Truthy(video_id)
            THEN pc' = "idupdate" /\ UNCHANGED idx
            ELSE pc' = IdNextPc /\ idx' = idx + 1
    /\ UNCHANGED <<prog, pass, store, statusEnc, dir, pages, url, result, report,
                   clientLog, reconciledPrev, args, ret, pages_need_id, needId, config, probe, api, gvd, oss>>

\* Variant: the patch is addressed with the position in the list.
IdUpdate_target_position(i) == i

\* main(), line 378: the page the video id is written to, page["id"].
IdUpdate_target(i) == pages_need_id[i]

\* main(), lines 378-381, with NotionManager.update_video_id (187-223):
\* a patch of '抖音id' alone; True for status 200, False otherwise.
IdUpdate ==
    /\ prog = "idp" /\ pc = "idupdate"
    /\ \E res \in Answers :
         LET id == IdUpdate_target(idx) IN
         /\ calls' = Append(calls, Call("patch", id, "rich_text", VIDEO_ID, {ID_FIELD}, res))
         /\ needId' = IF res = "ok" THEN needId \ {id} ELSE needId
         /\ report' = Say(report, pages_need_id[idx],
                          <<IF res = "ok" THEN "id_updated" ELSE "id_update_failed">>)
    /\ pc' = IdNextPc
    /\ idx' = idx + 1
    /\ UNCHANGED <<prog, pass, store, statusEnc, dir, pages, url, result,
                   clientLog, reconciledPrev, args, ret, pages_need_id, config, probe, api, gvd, oss>>

\* main(), lines 385-402: the download query that follows the id phase.  The
\* loop over its result is the download pass.
IdThenDownloadQuery ==
    /\ prog = "idp" /\ pc = "dlquery"
    /\ \E res \in Answers :
         LET r == NM_query_database(MAIN_filter_operand, res) IN
         /\ pages' = IF r.raised THEN <<>> ELSE r.value
         /\ calls' = Append(calls, Call("query", 0, "status", MAIN_filter_operand, {}, res))
         /\ pc' = IF r.raised THEN "failed" ELSE "done"
    /\ UNCHANGED <<prog, pass, store, statusEnc, dir, idx, url, result, report,
                   clientLog, reconciledPrev, args, ret, pages_need_id, needId, config, probe, api, gvd, oss>>

----------------------------------------------------------------------------
(* The two extractors, called on one page *)

\* NotionManager.get_url_from_page(page).
Probe_NM ==
    /\ prog = "probe" /\ probe.nm = NOT_RUN
    /\ probe' = [probe EXCEPT !.nm = Observed(NM_get_url_from_page(probe.prop))]
    /\ UNCHANGED <<prog, pc, pass, store, statusEnc, dir, pages, idx, url, result,
                   calls, report, clientLog, reconciledPrev, args, ret,
                   pages_need_id, needId, config, api, gvd, oss>>

\* NotionDownloader.get_url_from_page(page).
Probe_ND ==
    /\ prog = "probe" /\ probe.nd = NOT_RUN
    /\ probe' = [probe EXCEPT !.nd = Observed(ND_get_url_from_page(probe.prop))]
    /\ UNCHANGED <<prog, pc, pass, store, statusEnc, dir, pages, idx, url, result,
                   calls, report, clientLog, reconciledPrev, args, ret,
                   pages_need_id, needId, config, api, gvd, oss>>

----------------------------------------------------------------------------
(* tiktok_downloader_api.py: _download_video called once *)

\* _download_video(url, False, output_dir) for record 1.
Api_Call ==
    /\ prog = "api" /\ ~api.called
    /\ LET f == API_download_video(api.in.dir, 1, api.in.outcome, api.in.produced) IN
       /\ api' = [in |-> api.in, called |-> TRUE,
                  success |-> f.result.success, video_path |-> f.result.video_path,
                  message |-> f.message, raised |-> f.raised]
       /\ dir' = f.dir
    /\ UNCHANGED <<prog, pc, pass, store, statusEnc, pages, idx, url, result,
                   calls, report, clientLog, reconciledPrev, args, ret,
                   pages_need_id, needId, config, probe, gvd, oss>>

----------------------------------------------------------------------------
(* src/notion_downloader.py: NotionDownloader.get_videos_to_download *)

\* Lines 744-756: the status of a page, read through the first encoding
\* present among select, rich_text, title, status; None when there is none.
GVD_status(sp) ==
    IF "select" \in sp.keys
    THEN Returned(IF sp.name = NONE THEN "" ELSE sp.name)
    ELSE IF "rich_text" \in sp.keys \/ "title" \in sp.keys
    THEN (IF sp.entries = <<>> THEN Returned(NONE) ELSE ND_first_content(sp.entries))
    ELSE IF "status" \in sp.keys
    THEN (IF sp.name = NONE THEN Raised ELSE Returned(sp.name))   \* None.get
    ELSE Returned(NONE)

\* Lines 766-781: the URL of a page; url stays None for an empty list and for
\* a property of another type.
GVD_extract_url(url_prop) ==
    IF "url" \in url_prop.keys THEN Returned(url_prop.url)
    ELSE IF "rich_text" \in url_prop.keys
    THEN (IF url_prop.rich_text = <<>> THEN Returned(NONE)
          ELSE ND_first_content(url_prop.rich_text))
    ELSE IF "title" \in url_prop.keys
    THEN (IF url_prop.title = <<>> THEN Returned(NONE)
          ELSE ND_first_content(url_prop.title))
    ELSE Returned(NONE)

\* Lines 739-799, the try block of one page: the URL of the entry that is
\* appended, None when the page is skipped (738-762, 783-785); Raised when
\* the block raises, which the handler at 798-799 logs.
GVD_inspect(page) ==
    IF page.properties_null THEN Raised                    \* None.get
    ELSE LET status == GVD_status(page.status) IN
         IF status.raised THEN Raised
         ELSE IF status.value # PENDING THEN Returned(NONE)
         ELSE LET u == GVD_extract_url(page.url) IN
              IF u.raised THEN Raised
              ELSE IF Truthy(u.value) THEN u ELSE Returned(NONE)

\* Lines 735-799: the loop over the pages.
RECURSIVE GVD_videos(_, _)
GVD_videos(ps, i) ==
    IF i > Len(ps) THEN <<>>
    ELSE LET r == GVD_inspect(ps[i]) IN
         (IF ~r.raised /\ r.value # NONE THEN <<[id |-> i, url |-> r.value]>> ELSE <<>>)
         \o GVD_videos(ps, i + 1)

\* Lines 722-732: the structure of pages[0] is printed before the loop and
\* outside the try block of the pages; properties.items() raises when the
\* "properties" of that page is null.
GVD_print_structure_raises(ps) == ps[1].properties_null

\* get_videos_to_download, lines 712-806: the result of query_database() with
\* no filter ([] when the query failed), [] for no page, [] when the outer
\* handler (804-806) catches an error, the list of the loop otherwise.
ND_get_videos_to_download(ps, res) ==
    LET queried == IF res = "ok" THEN ps ELSE <<>> IN
    IF queried = <<>> THEN <<>>
    ELSE IF GVD_print_structure_raises(queried) THEN <<>>
    ELSE GVD_videos(queried, 1)

\* One call get_videos_to_download(): one query without a filter, no write.
Gvd_Call ==
    /\ prog = "gvd" /\ ~gvd.called
    /\ gvd' = [in |-> gvd.in, called |-> TRUE,
               videos |-> ND_get_videos_to_download(gvd.in.pages, gvd.in.res)]
    /\ calls' = <<Call("query", 0, "", NONE, {}, gvd.in.res)>>
    /\ UNCHANGED <<prog, pc, pass, store, statusEnc, dir, pages, idx, url, result,
                   report, clientLog, reconciledPrev, args, ret,
                   pages_need_id, needId, config, probe, api, oss>>

----------------------------------------------------------------------------
(* src/oss_manager.py: OSSManager.upload_video *)

MSG_NOT_EXISTS == <<"shipin wenjian bu cunzai">>            \* "视频文件不存在: ..."
MSG_UPLOAD_FAILED == <<"shangchuan shipin dao OSS shibai">>  \* "上传视频到OSS失败: ..."

\* The last position of character c in p, 0 when there is none.
LastIndexOf(p, c) ==
    LET S == {i \in DOMAIN p : p[i] = c} IN
    IF S = {} THEN 0 ELSE CHOOSE i \in S : \A j \in S : j <= i

\* os.path.splitext(p)[1], line 50: the part from the last dot on, when that
\* dot comes after the last separator and after a character of the file name
\* that is not a dot; empty otherwise.
OS_splitext_ext(p) ==
    LET sep == LastIndexOf(p, "/")
        dot == LastIndexOf(p, ".") IN
    IF dot > sep /\ \E i \in (sep + 1)..(dot - 1) : p[i] # "."
    THEN SubSeq(p, dot, Len(p))
    ELSE <<>>

\* Line 52: the key of the object.
OSS_key(video_path, video_id) == <<"videos/">> \o video_id \o OS_splitext_ext(video_path)

OssResult(raised, success, value, puts) ==
    [raised |-> raised, success |-> success, value |-> value, puts |-> puts]

\* Variant: the upload is outside the try block.
OSS_upload_video_unguarded(in) ==
    LET oss_key == OSS_key(in.video_path, in.video_id) IN
    IF ~in.exists THEN OssResult(FALSE, FALSE, MSG_NOT_EXISTS, <<>>)
    ELSE IF in.open = "error" THEN OssResult(FALSE, FALSE, MSG_UPLOAD_FAILED, <<>>)
    ELSE IF in.put = "error" THEN OssResult(TRUE, FALSE, <<>>, <<oss_key>>)
    ELSE IF ~in.has_base_url THEN OssResult(FALSE, FALSE, MSG_UPLOAD_FAILED, <<oss_key>>)
    ELSE OssResult(FALSE, TRUE, OSS_BASE_URL \o <<"/">> \o oss_key, <<oss_key>>)

\* OSSManager.upload_video, lines 44-69.  puts is the sequence of put_object
\* requests issued.  Every exception of the try block (open, put_object, the
\* missing 'base_url' at line 60, which comes after the upload) ends in the
\* handler at 66-69.
OSS_upload_video(in) ==
    LET oss_key == OSS_key(in.video_path, in.video_id) IN
    IF ~in.exists THEN OssResult(FALSE, FALSE, MSG_NOT_EXISTS, <<>>)
    ELSE IF in.open = "error" THEN OssResult(FALSE, FALSE, MSG_UPLOAD_FAILED, <<>>)
    ELSE IF in.put = "error" THEN OssResult(FALSE, FALSE, MSG_UPLOAD_FAILED, <<oss_key>>)
    ELSE IF ~in.has_base_url THEN OssResult(FALSE, FALSE, MSG_UPLOAD_FAILED, <<oss_key>>)
    ELSE OssResult(FALSE, TRUE, OSS_BASE_URL \o <<"/">> \o oss_key, <<oss_key>>)

\* One call upload_video(video_path, video_id).
Oss_Call ==
    /\ prog = "oss" /\ ~oss.called
    /\ LET r == OSS_upload_video(oss.in) IN
       oss' = [in |-> oss.in, called |-> TRUE, raised |-> r.raised,
               success |-> r.success, value |-> r.value, puts |-> r.puts]
    /\ UNCHANGED <<prog, pc, pass, store, statusEnc, dir, pages, idx, url, result,
                   calls, report, clientLog, reconciledPrev, args, ret,
                   pages_need_id, needId, config, probe, api, gvd>>

----------------------------------------------------------------------------

Next ==
    \/ MainQuery
    \/ DU_Extract
    \/ DU_Fetch
    \/ DU_Write
    \/ NextPass
    \/ PndQuery
    \/ PND_Extract
    \/ PND_Mark
    \/ PND_Fetch
    \/ PND_Write
    \/ PND_Handler
    \/ UPS_Call
    \/ GP_Call
    \/ UPP_Call
    \/ MainStart
    \/ NdStart
    \/ NdRun
    \/ IdQuery
    \/ IdExtract
    \/ IdResolve
    \/ IdUpdate
    \/ IdThenDownloadQuery
    \/ Probe_NM
    \/ Probe_ND
    \/ Api_Call
    \/ Gvd_Call
    \/ Oss_Call

Spec == Init /\ [][Next]_vars

----------------------------------------------------------------------------
(* Properties *)

Pipeline == prog \in {"main", "pnd"}

CallIdx == 1..Len(calls)

\* The writes of the current pass that change the status field of a record.
StatusPatches(id) ==
    {k \in CallIdx : calls[k].op = "patch" /\ calls[k].id = id
                     /\ STATUS_FIELD \in calls[k].fields}

Fetches(id)  == {k \in CallIdx : calls[k].op = "fetch" /\ calls[k].id = id}
Attempts(id) == {k \in CallIdx : calls[k].op = "attempt" /\ calls[k].id = id}

\* The record the loop is working on.
InFlight(id) ==
    /\ pc \in {"extract", "mark", "fetch", "write", "handler"}
    /\ idx \in 1..Len(pages) /\ pages[idx] = id

RecognizedEncodings == {"select", "rich_text", "title", "status"}

\* C1 (as stated): in one pass at most one write changing the status field
\* is issued for any one record, in main()'s download loop and in
\* process_notion_database.
C1_AtMostOneStatusWrite ==
    Pipeline => \A id \in Ids : Cardinality(StatusPatches(id)) <= 1

\* C1 (amended): main()'s download loop issues at most one status write per
\* record and pass.  process_notion_database issues at most one in-progress
\* write and at most one terminal write that the store answers (accepted or
\* rejected); a write that raises is followed by one more failed-status write
\* of the except block, at most three status writes per record in all.
C1_StatusWritesPerPass ==
    /\ prog = "main" => \A id \in Ids : Cardinality(StatusPatches(id)) <= 1
    /\ prog = "pnd" => \A id \in Ids :
         /\ Cardinality(StatusPatches(id)) <= 3
         /\ Cardinality({k \in StatusPatches(id) : calls[k].label = IN_PROGRESS}) <= 1
         /\ Cardinality({k \in StatusPatches(id) :
                           calls[k].label \in TerminalLabels /\ calls[k].res # "error"}) <= 1

C1_Witness ==
    /\ prog = "pnd"
    /\ \E id \in Ids : Cardinality(StatusPatches(id)) = 3

\* C2: for every record whose URL was extracted, download_and_update invokes
\* the fetch and then issues exactly one status patch for the record's id,
\* labelled done iff the fetch result has success = true and failed iff it
\* has success = false.
C2_OnePatchMatchingFetchResult ==
    prog = "main" =>
      \A id \in Ids :
        (report[id] # <<>> /\ report[id][1] = "start" /\ ~InFlight(id)) =>
          \E f \in Fetches(id), k \in StatusPatches(id) :
            /\ Fetches(id) = {f}
            /\ StatusPatches(id) = {k}
            /\ f < k
            /\ calls[k].label = DONE <=> calls[f].res = "success"
            /\ calls[k].label = FAILED <=> calls[f].res = "failure"

C2_Witness ==
    /\ prog = "main" /\ pc = "done"
    /\ \E a, b \in Ids :
         /\ \E k \in StatusPatches(a) : calls[k].label = DONE
         /\ \E k \in StatusPatches(b) : calls[k].label = FAILED

\* C3 (as stated): every terminal status write of a pass is in the encoding
\* the record's status field has.
C3_TerminalWriteInRecordEncoding ==
    Pipeline =>
      \A k \in CallIdx :
        (calls[k].op = "patch" /\ calls[k].label \in TerminalLabels) =>
          calls[k].tag = statusEnc

\* C4: NotionDownloader.update_page_status first retrieves the record; for
\* each recognized encoding found on the retrieved record it sends one update
\* whose payload tag is that encoding and whose label is the requested
\* status, and it never sends an update with another tag.
C4_PayloadMatchesDiscoveredEncoding ==
    (prog = "ups" /\ ret # "none") =>
      /\ calls[1].op = "get" /\ calls[1].id = args.page_id
      /\ \A k \in CallIdx :
           calls[k].op = "update" =>
             /\ k = 2
             /\ calls[k].tag = statusEnc
             /\ calls[k].label = args.status
             /\ calls[k].id = args.page_id
             /\ calls[k].fields = {STATUS_FIELD}
      /\ (calls[1].res = "page" /\ statusEnc \in RecognizedEncodings) =>
           \E k \in CallIdx : calls[k].op = "update"

C4_Witness ==
    /\ prog = "ups" /\ statusEnc = "rich_text" /\ ret = "true"
    /\ Len(calls) = 2 /\ calls[2].op = "update" /\ calls[2].tag = "rich_text"

\* C5: when the status field of the retrieved record has no recognized
\* encoding (a checkbox, or no such field), update_page_status returns false
\* and sends no update.
C5_UnrecognizedEncodingNoUpdate ==
    (prog = "ups" /\ ret # "none" /\ statusEnc \notin RecognizedEncodings) =>
      /\ ret = "false"
      /\ \A k \in CallIdx : calls[k].op # "update"

C5_Witness ==
    /\ prog = "ups" /\ statusEnc = "checkbox" /\ ret = "false"
    /\ Len(calls) = 1 /\ calls[1].res = "page"

\* URL fields that hold no value: a null url, an empty rich_text list.
NoUrlShapes == {UrlProp(NONE), RichTextProp(<<>>)}

\* C6 (as stated): for a record whose URL field holds no value the pass
\* invokes no fetch and issues no remote write, in download_and_update and in
\* process_notion_database.
C6_NoUrlNoFetchNoWrite ==
    Pipeline =>
      \A id \in Ids :
        store[id].url \in NoUrlShapes =>
          \A k \in CallIdx :
            calls[k].id = id => calls[k].op \notin {"fetch", "attempt", "patch"}

\* C7 (as stated): within one pass at most one download attempt is made for
\* a record, in the main pipeline and in simple_download_video.
C7_OneAttemptPerRecord ==
    Pipeline => \A id \in Ids : Cardinality(Attempts(id)) <= 1

\* C7 (amended): a pass invokes the fetch at most once per record, and
\* _download_video makes one attempt.  simple_download_video makes a second
\* attempt, the subprocess fallback, exactly when its primary attempt ran to
\* completion and no video file was found after it; never more than two.
C7_OneFetchAtMostOneFallback ==
    Pipeline =>
      \A id \in Ids :
        /\ Cardinality(Fetches(id)) <= 1
        /\ Cardinality(Attempts(id)) <= 2
        /\ prog = "main" => Cardinality(Attempts(id)) <= 1
        /\ \A k \in Attempts(id) :
             calls[k].tag = "fallback" =>
               /\ k - 1 \in CallIdx
               /\ calls[k - 1].op = "attempt" /\ calls[k - 1].id = id
               /\ calls[k - 1].tag = "primary"
               /\ calls[k - 1].res = "no_file"
        /\ \A k \in Attempts(id) :
             (calls[k].tag = "primary" /\ calls[k].res = "no_file") =>
               /\ k + 1 \in CallIdx
               /\ calls[k + 1].op = "attempt" /\ calls[k + 1].id = id
               /\ calls[k + 1].tag = "fallback"

C7_Witness ==
    /\ prog = "pnd"
    /\ \E k \in CallIdx : calls[k].op = "attempt" /\ calls[k].tag = "fallback"

\* What the pass prints for a record whose fetch succeeded and whose status
\* was written, and for a record whose fetch failed and whose status was written.
ReportReconciledSuccess ==
    IF prog = "main" THEN <<"start", "dl_ok", "status_updated">>
    ELSE <<"downloading", "success">>
ReportFetchFailed ==
    IF prog = "main" THEN <<"start", "dl_fail", "status_updated">>
    ELSE <<"downloading", "failed">>

\* The status write that follows the fetch of a record.
WriteAfterFetch(id) ==
    {k \in StatusPatches(id) :
        /\ \E f \in Fetches(id) : f < k
        /\ \A j \in StatusPatches(id) : (\E f \in Fetches(id) : f < j) => k <= j}

\* C8 (as stated): when the fetch outcome of a record is known and the
\* status write that follows fails, what the pass reports for the record
\* differs from the report of a reconciled success and of a fetch failure.
C8_FailedWriteReportedDistinctly ==
    Pipeline =>
      \A id \in Ids :
        (~InFlight(id) /\ \E k \in WriteAfterFetch(id) : calls[k].res # "ok") =>
          report[id] \notin {ReportReconciledSuccess, ReportFetchFailed}

\* C9 (as stated): no failure on one record ends the pass; when the pass is
\* over, the loop has run the pipeline of every record the query returned.
C9_PassRunsEveryRecord ==
    (Pipeline /\ pc \in {"done", "crashed"}) => idx = Len(pages) + 1 \/ pages = <<>>

\* C10: a later pass of main() invokes the fetch for no record that an
\* earlier pass reconciled to a terminal status.
C10_NoFetchOfReconciled ==
    prog = "main" =>
      \A k \in CallIdx : calls[k].op = "fetch" => calls[k].id \notin reconciledPrev

C10_Witness ==
    /\ prog = "main" /\ pass = 2 /\ reconciledPrev # {}
    /\ \E k \in CallIdx : calls[k].op = "fetch"

----------------------------------------------------------------------------
(* Properties of the second group *)

\* The position of a record in the result of the query.
PagePos(id) == CHOOSE j \in 1..Len(pages) : pages[j] = id

\* C11: records are processed one after another in the order the query
\* returned them: every operation on a record comes before every operation
\* on a later record, so the status write (or skip) of a record precedes the
\* extraction and the fetch of the next, and nothing touches a record the
\* loop has not reached.
C11_RecordsProcessedInOrder ==
    Pipeline =>
      /\ \A k \in CallIdx :
           calls[k].id # 0 =>
             /\ \E j \in 1..Len(pages) : pages[j] = calls[k].id
             /\ PagePos(calls[k].id) <= idx
      /\ \A k \in CallIdx : calls[k].id = 0 => k = 1
      /\ \A k \in 2..(Len(calls) - 1) :
           PagePos(calls[k].id) <= PagePos(calls[k + 1].id)
      /\ \A id \in Ids :
           report[id] # <<>> =>
             \E j \in 1..Len(pages) : pages[j] = id /\ j <= idx

C11_Witness ==
    /\ Pipeline /\ pc = "done" /\ Len(pages) = 2
    /\ \A id \in Ids : Fetches(id) # {} /\ StatusPatches(id) # {}

\* C12: query_database never raises; it returns [] when the request is
\* refused and when the transport fails, and the 'results' of the answer,
\* as the store gave them, when the request succeeds.
C12_QueryReturnsResultsOrEmpty ==
    (Pipeline /\ Len(calls) = 1 /\ calls[1].op = "query") =>
      /\ pc \notin {"crashed", "failed"}
      /\ pages = IF calls[1].res = "ok" THEN StoreQuery(calls[1].label) ELSE <<>>
      /\ calls[1].res # "ok" => pc = "done"

C12_Witness ==
    /\ prog = "pnd" /\ Len(calls) = 1 /\ calls[1].op = "query"
    /\ calls[1].res = "error" /\ pages = <<>> /\ pc = "done"

\* C13: get_page and update_page_properties never raise: a refused request
\* and a failure of the transport both end in None, respectively False.
C13_ClientOpsNeverRaise ==
    (prog = "client" /\ calls # <<>>) =>
      /\ ret # "raised"
      /\ calls[1].res # "ok" =>
           ret = IF calls[1].op = "get" THEN NONE ELSE "false"

\* The lines the console shows for a record.
Lines(log, id) == {log[id][n] : n \in DOMAIN log[id]}

\* C14: update_page_status returns true only when the store accepted the
\* patch.  NotionManager's returns true exactly for an accepted patch and
\* false for a refused one and for a transport error; NotionDownloader's
\* returns true exactly when its update was accepted, false otherwise, and
\* neither raises.
C14_TrueOnlyWhenAccepted ==
    /\ prog = "main" =>
         \A id \in Ids : \A k \in StatusPatches(id) :
           /\ ("status_updated" \in Lines(report, id)) <=> (calls[k].res = "ok")
           /\ ("status_update_failed" \in Lines(report, id)) <=> (calls[k].res # "ok")
           /\ pc # "failed"
    /\ (prog = "ups" /\ ret # "none") =>
         /\ ret \in {"true", "false"}
         /\ (ret = "true") <=>
              (Len(calls) = 2 /\ calls[2].op = "update" /\ calls[2].res = "ok")

C14_Witness ==
    /\ prog = "main"
    /\ \E id \in Ids : \E k \in StatusPatches(id) :
         calls[k].res = "error" /\ "status_update_failed" \in Lines(report, id)

\* The writes of the current pass, whoever issued them.
Writes == {k \in CallIdx : calls[k].op \in {"patch", "update"}}

\* C15 (as stated): every patch that changes the status field of a record
\* contains the status field and nothing else.
C15_StatusPatchHasStatusOnly ==
    \A k \in Writes :
      STATUS_FIELD \in calls[k].fields => calls[k].fields = {STATUS_FIELD}

\* C15 (amended): a patch that changes the status field contains nothing
\* else, except the success write of process_notion_database, which sets
\* 'File' in the same patch; that write always carries both fields.
C15_StatusPatchFields ==
    \A k \in Writes :
      STATUS_FIELD \in calls[k].fields =>
        IF prog = "pnd" /\ calls[k].label = REVIEW
        THEN calls[k].fields = {STATUS_FIELD, FILE_FIELD}
        ELSE calls[k].fields = {STATUS_FIELD}

C15_Witness ==
    /\ prog = "pnd"
    /\ \E j, k \in Writes :
         /\ j < k /\ calls[j].id = calls[k].id
         /\ calls[j].label = IN_PROGRESS /\ calls[j].fields = {STATUS_FIELD}
         /\ calls[k].label = REVIEW /\ calls[k].fields = {STATUS_FIELD, FILE_FIELD}

\* The programs that run a pass over the records of a query.
Pass == prog \in {"main", "pnd", "idp"}

\* The ids the query of the phase returned.
Queried ==
    IF prog = "idp" THEN {pages_need_id[j] : j \in DOMAIN pages_need_id}
    ELSE {pages[j] : j \in DOMAIN pages}

\* C16: a pass never creates or deletes a record: the remote operations it
\* issues are queries and partial updates (next to the fetch and the id
\* resolution, which do not touch the store), and every partial update
\* targets a record an accepted query of the same pass returned.
C16_OnlyPatchesOfQueriedRecords ==
    Pass =>
      \A k \in CallIdx :
        /\ calls[k].op \in {"query", "patch", "fetch", "attempt", "resolve"}
        /\ calls[k].op = "patch" =>
             /\ calls[k].id \in Queried
             /\ \E q \in 1..(k - 1) : calls[q].op = "query" /\ calls[q].res = "ok"

C16_Witness ==
    /\ prog = "idp" /\ pc = "done" /\ pages_need_id = <<2>>
    /\ \E k \in CallIdx : calls[k].op = "patch" /\ calls[k].id = 2 /\ calls[k].res = "ok"

\* The setting is missing or empty.
Missing(v) == v = NONE \/ v = ""

\* C17: when the token or the database id is missing or empty after the
\* configuration is loaded (in notion_downloader_main also: when the file is
\* absent or cannot be parsed), main() returns and no remote query, fetch
\* or patch has been issued.
C17_NoRemoteCallWithoutSettings ==
    /\ (prog = "idp" /\ pc # "start"
          /\ (config.file.kind # "object" \/ Missing(config.notion_token)
                \/ Missing(config.database_id)))
         => (pc = "returned" /\ calls = <<>> /\ dir = <<>>)
    /\ (prog = "nd_start" /\ pc # "start"
          /\ (Missing(config.notion_token) \/ Missing(config.database_id)))
         => (pc = "returned" /\ calls = <<>> /\ dir = <<>>)

C17_Witness ==
    /\ prog = "nd_start" /\ pc = "returned" /\ calls = <<>>
    /\ config.env.NOTION_TOKEN = E_TOKEN /\ config.file.kind = "object"
    /\ config.notion_token = F_TOKEN /\ config.database_id = ""

\* C18: in notion_downloader.main a setting the environment supplies is the
\* value used; the config file never replaces it.
C18_EnvironmentOverConfigFile ==
    (prog = "nd_start" /\ pc # "start") =>
      /\ ~Missing(config.env.NOTION_TOKEN) =>
           config.notion_token = config.env.NOTION_TOKEN
      /\ ~Missing(config.env.NOTION_DATABASE_ID) =>
           config.database_id = config.env.NOTION_DATABASE_ID

\* What the extractors that have run returned.
ProbeResults == {probe.nm, probe.nd} \ {NOT_RUN}

\* A well-formed URL field in one of the three encodings, holding HTTP_URL.
WellFormedUrlField(p) ==
    p \in {UrlProp(HTTP_URL), RichTextProp(<<TextEntry(HTTP_URL)>>),
           TitleProp(<<TextEntry(HTTP_URL)>>)}

\* A URL field that is missing or empty.
EmptyUrlField(p) ==
    p \in {NoProp, UrlProp(NONE), UrlProp(""), RichTextProp(<<>>), TitleProp(<<>>)}

Absent(v) == v = NONE \/ v = ""

\* C19: for both extractors and each of the encodings url, rich_text and
\* title, a well-formed field yields the embedded URL unchanged and a
\* missing or empty field yields absent.
C19_ExtractorsReturnEmbeddedUrl ==
    prog = "probe" =>
      \A r \in ProbeResults :
        /\ WellFormedUrlField(probe.prop) => r = HTTP_URL
        /\ EmptyUrlField(probe.prop) => Absent(r)

\* The content of the first entry of a list, "" when there is none.
FirstContent(entries) ==
    IF entries # <<>> /\ "text" \in entries[1].keys /\ ~entries[1].text.isnull
       /\ "content" \in entries[1].text.keys
    THEN entries[1].text.content ELSE ""

\* The first non-empty value after the url-typed one, in the order
\* rich_text, title.
LaterValue(p) ==
    IF "rich_text" \in p.keys /\ ~Absent(FirstContent(p.rich_text))
    THEN FirstContent(p.rich_text)
    ELSE IF "title" \in p.keys THEN FirstContent(p.title) ELSE ""

\* C20: when the url-typed value is present but empty and a later encoding
\* (rich_text, then title) holds a non-empty value, that value is returned.
C20_FallsThroughToLaterEncoding ==
    prog = "probe" =>
      \A r \in ProbeResults :
        ("url" \in probe.prop.keys /\ Absent(probe.prop.url)
           /\ ~Absent(LaterValue(probe.prop)))
          => r = LaterValue(probe.prop)

----------------------------------------------------------------------------
(* Properties of the third group *)

\* The entries of a property that holds a list (rich_text or title alone).
ListOf(p) ==
    IF p.keys = {"rich_text"} THEN p.rich_text
    ELSE IF p.keys = {"title"} THEN p.title
    ELSE <<>>

\* An entry NotionManager's loop accepts: a text with a content that starts
\* with a scheme.
Acceptable(e) ==
    /\ "text" \in e.keys /\ ~e.text.isnull /\ "content" \in e.text.keys
    /\ e.text.content \in {HTTP_URL, HTTP_URL_2}

C22_OnlySchemeUrlsFetched ==
    Pipeline =>
      /\ \A k \in CallIdx :
           calls[k].op = "fetch" => StartsWithScheme(calls[k].label)
      /\ \A id \in Ids :
           store[id].url = UrlProp(NO_SCHEME) => Fetches(id) = {}

\* C23: URL extraction never fails: whatever the shape of the record, both
\* extractors return a value or absent and do not raise.
C23_ExtractionNeverRaises ==
    prog = "probe" => \A r \in ProbeResults : r # "raised"

\* C24: _download_video reports every failure as a value: it never raises,
\* success is true exactly when video_path is set, and the message is not
\* empty when success is false.
C24_FailureIsAValue ==
    (prog = "api" /\ api.called) =>
      /\ ~api.raised
      /\ api.success <=> api.video_path # 0
      /\ ~api.success => api.message # ""

C24_Witness ==
    /\ prog = "api" /\ api.called /\ api.in.outcome = "raised"
    /\ ~api.success /\ api.video_path = 0 /\ api.message = MSG_ERROR

\* The records process_notion_database extracts a non-empty URL from.
PND_has_url(id) ==
    LET r == PND_extract_url(store[id].url) IN ~r.raised /\ Truthy(r.value)

InProgressWrites(id) == {k \in StatusPatches(id) : calls[k].label = IN_PROGRESS}
TerminalWrites(id)   == {k \in StatusPatches(id) : calls[k].label \in {REVIEW, FAILED}}

C26_NoRecordStuckInProgress ==
    (prog = "pnd" /\ pc \in {"done", "crashed"}) =>
      \A id \in Ids :
        (\E j \in InProgressWrites(id) : calls[j].res = "ok") =>
          store[id].label \in {REVIEW, FAILED}

\* C27: with several records sharing one download directory, a fetch comes
\* back with success only on a video file of the record it was started for:
\* a file another record left in the directory is never reported as the
\* record's video_path.
C27_SuccessOnlyFromOwnFile ==
    (Pipeline /\ pc = "write" /\ result.success) =>
      result.video_path = pages[idx]

\* C28: in main() the query for the pending records is always sent once the
\* video-id phase has begun, whatever happened in that phase: no run ends
\* after the id query without the download query.
C28_DownloadQueryAfterIdPhase ==
    (prog = "idp" /\ pc \in {"failed", "done"}) =>
      \E k \in CallIdx :
        calls[k].op = "query" /\ calls[k].label = MAIN_filter_operand

\* C29: the query of process_notion_database selects the pending records:
\* the operand query_database places under "equals" is the pending label
\* itself.
C29_QueryOperandIsPendingLabel ==
    prog \in {"pnd", "nd_start"} =>
      \A k \in CallIdx : calls[k].op = "query" => calls[k].label = PENDING

\* The records get_videos_to_download is to list: the inspection of the page
\* does not raise, its status is the pending label and its URL is not empty.
Listed(i) ==
    LET r == GVD_inspect(gvd.in.pages[i]) IN ~r.raised /\ r.value # NONE

\* C30: get_videos_to_download returns, in the order of the query, one entry
\* {id, url} for exactly the queried records whose status is pending and
\* whose URL is not empty; a record that raises while it is inspected is left
\* out and the other records are not affected; nothing is written.
C30_ListsExactlyPendingWithUrl ==
    (prog = "gvd" /\ gvd.called) =>
      /\ gvd.in.res = "ok" =>
           /\ \A i \in Ids :
                Listed(i) <=>
                  \E k \in 1..Len(gvd.videos) :
                    /\ gvd.videos[k].id = i
                    /\ gvd.videos[k].url = GVD_inspect(gvd.in.pages[i]).value
           /\ \A k \in 1..(Len(gvd.videos) - 1) :
                gvd.videos[k].id < gvd.videos[k + 1].id
      /\ \A k \in CallIdx : calls[k].op = "query"

\* C31: in NotionDownloader.update_page_status the retrieve of the record
\* comes before the update; when the retrieve raises or returns nothing the
\* method returns false and sends no update.
C31_RefetchBeforeUpdate ==
    (prog = "ups" /\ ret # "none") =>
      /\ calls # <<>> /\ calls[1].op = "get" /\ calls[1].id = args.page_id
      /\ \A k \in CallIdx : calls[k].op = "update" => k > 1
      /\ calls[1].res \in {"none", "error"} =>
           /\ ret = "false"
           /\ \A k \in CallIdx : calls[k].op # "update"

C31_Witness ==
    /\ prog = "ups" /\ ret = "false"
    /\ calls # <<>> /\ calls[1].op = "get" /\ calls[1].res = "error"
    /\ Len(calls) = 1

\* The extension of each path of OssPaths, written out.
ExtensionOf(p) ==
    IF p \in {<<"a", ".", "m">>, <<"d", "/", "a", ".", "m">>} THEN <<".", "m">> ELSE <<>>

\* C32: OSSManager.upload_video never raises; for a file that does not exist
\* it returns (False, message) and no upload was issued; when the upload
\* raises it returns (False, message); when it returns success exactly one
\* put_object was issued, with the key videos/<video_id><ext>, and the value
\* returned is <base_url>/videos/<video_id><ext>.
C32_UploadNeverRaises ==
    (prog = "oss" /\ oss.called) =>
      LET key == <<"videos/">> \o oss.in.video_id \o ExtensionOf(oss.in.video_path) IN
      /\ ~oss.raised
      /\ ~oss.in.exists =>
           ~oss.success /\ oss.value = MSG_NOT_EXISTS /\ oss.puts = <<>>
      /\ (oss.in.exists /\ oss.in.open = "ok" /\ oss.in.put = "error") =>
           ~oss.success /\ oss.value = MSG_UPLOAD_FAILED
      /\ oss.success =>
           /\ oss.puts = <<key>>
           /\ oss.value = OSS_BASE_URL \o <<"/">> \o key
           /\ oss.in.exists /\ oss.in.put = "ok"

C32_Witness ==
    /\ prog = "oss" /\ oss.called /\ oss.success
    /\ oss.in.video_path = <<"d", "/", "a", ".", "m">>
    /\ oss.puts = <<(<<"videos/", "7", ".", "m">>)>>
    /\ oss.value = <<"h", ":", "/", "/", "c", "/", "videos/", "7", ".", "m">>

====
